---- MODULE Spec2Model ----
(***************************************************************************)
(* A model of the sorna manager's event bus (sorna/gateway/events.py:      *)
(* EventServer), its redis lease-expiry monitor (monitor_redis_events,     *)
(* init, shutdown) and its drivers (sorna/driver.py).                      *)
(*                                                                         *)
(* Strings the code takes apart or puts together (redis keys, channel      *)
(* names, socket addresses) are sequences of one-character strings, so     *)
(* that startswith, split and format are computed as Python computes them. *)
(* Names the code only compares or passes on are TLA+ strings.             *)
(***************************************************************************)
EXTENDS Integers, Sequences, FiniteSets, TLC

VARIABLES
    handlers,     \* EventServer.handlers: defaultdict(list), event name -> callbacks
    registered,   \* history: the add_handler calls (event name, callback), in order
    ready,        \* the event loop's queue of scheduled handler invocations
    inflight,     \* asynchronous handler tasks suspended at an await
    ran,          \* history: handler invocations in the order they started
    trace,        \* the lines local_dispatch wrote with log.debug
    dispatched,   \* history: the calls of local_dispatch, in order
    mpc,          \* monitor_redis_events: the await the task is suspended at
    mres,         \* how the monitor task ended ("running" until it has)
    mexc,         \* the exception pending while the finally block runs
    cancelReq,    \* task.cancel() was called and not yet thrown into the task
    conn,         \* the redis connection redis_sub
    psubs,        \* pattern subscriptions redis holds for the connection
    subs,         \* channel subscriptions redis holds for the connection
    inbox,        \* channels[0]: notifications queued for get()
    nsent,        \* number of notifications redis delivered so far
    received,     \* history: the messages get() returned to the monitor
    spc,          \* shutdown(): the statement it is at
    sock,         \* app['event_sock']: the RPC endpoint
    agents,       \* LocalDriver.agents: kernel id -> process handle
    procs,        \* the agent processes spawned so far: handle -> state
    nuuid,        \* the number of uuid.uuid4() values drawn so far
    calls,        \* history: the driver calls made, each with where it is
    destroyedInst \* history: instance ids destroy_instance was completed for

evars == <<handlers, registered, ready, inflight, ran, trace, dispatched>>
mvars == <<mpc, mres, mexc, cancelReq, conn, psubs, subs, inbox, nsent, received>>
svars == <<spc, sock>>
dvars == <<agents, procs, nuuid, calls, destroyedInst>>

\* ------------------------------------------------------------------ bounds
MaxBusCalls == 3   \* add_handler calls and dispatches by callers, together
MaxNotifs == 2     \* notifications redis delivers
MaxCalls == 3      \* driver calls
MaxMonitorHandlers == 1   \* handlers registered while the monitor is watched

\* ------------------------------------------------------------------ strings
\* 'shadow:' (events.py:54)
ShadowPrefix == <<"s", "h", "a", "d", "o", "w", ":">>

\* str.startswith
StartsWith(s, p) ==
    /\ Len(s) >= Len(p)
    /\ \A i \in 1..Len(p) : s[i] = p[i]

\* str.find: the least index of c in s, 0 when there is none
RECURSIVE FindFrom(_, _, _)
FindFrom(s, c, i) ==
    IF i > Len(s) THEN 0
    ELSE IF s[i] = c THEN i
    ELSE FindFrom(s, c, i + 1)

\* str.split(sep, maxsplit) for a one-character sep; maxsplit = -1 is no limit
RECURSIVE Split(_, _, _)
Split(s, sep, maxsplit) ==
    LET k == FindFrom(s, sep, 1) IN
    IF maxsplit = 0 \/ k = 0 THEN <<s>>
    ELSE <<SubSeq(s, 1, k - 1)>> \o
         Split(SubSeq(s, k + 1, Len(s)), sep,
               IF maxsplit < 0 THEN maxsplit ELSE maxsplit - 1)

\* ------------------------------------------------------------------ event bus
EventNames == {"instance_terminated", "e"}
Callbacks == {"h1", "h2"}

\* asyncio.iscoroutine(handler) or asyncio.iscoroutinefunction(handler): h2 is
\* an async def, h1 a plain function
IsCoroutineFunction(h) == h = "h2"

\* the arguments in-process and remote callers dispatch with
CallerArgs == {<< >>, <<"x">>}

\* a variant that starts a new table when the name is missing
TableAfterLookupReset(tbl, e) ==
    IF e \in DOMAIN tbl THEN tbl ELSE (e :> << >>)

\* self.handlers[event_name] on a defaultdict(list): the table after the lookup
\* (a missing key is inserted with an empty list)
TableAfterLookup(tbl, e) ==
    IF e \in DOMAIN tbl THEN tbl
    ELSE [k \in DOMAIN tbl \cup {e} |-> IF k = e THEN << >> ELSE tbl[k]]

\* EventServer.add_handler
AddHandlerTo(tbl, e, cb) ==
    LET t == TableAfterLookup(tbl, e) IN
    [t EXCEPT ![e] = Append(t[e], cb)]

\* a variant that schedules each distinct callback of the list once
UnitsForDistinct(hs, d, args) ==
    LET firsts == SelectSeq([i \in 1..Len(hs) |-> <<i, hs[i]>>],
                            LAMBDA p : \A j \in 1..(p[1] - 1) : hs[j] # p[2])
    IN  [n \in 1..Len(firsts) |->
            [d |-> d, i |-> firsts[n][1], h |-> firsts[n][2], args |-> args]]

\* a variant that walks the handler list from its end
UnitsForReversed(hs, d, args) ==
    [n \in 1..Len(hs) |->
        [d |-> d, i |-> Len(hs) + 1 - n, h |-> hs[Len(hs) + 1 - n],
         args |-> args]]

\* the invocations local_dispatch schedules for dispatch number d: one per
\* entry of the handler list, in list order, each with the dispatch's args
UnitsFor(hs, d, args) ==
    [i \in 1..Len(hs) |-> [d |-> d, i |-> i, h |-> hs[i], args |-> args]]

\* the log.debug line: the name and str(args[0]) if args else ''
TraceLine(e, args) == <<e, IF Len(args) > 0 THEN args[1] ELSE "">>

\* a variant that puts the invocations at the front of the loop's queue
LocalDispatchFront(e, args, by) ==
    LET t  == TableAfterLookup(handlers, e)
        d  == Len(dispatched) + 1
    IN  /\ trace' = Append(trace, TraceLine(e, args))
        /\ handlers' = t
        /\ ready' = UnitsFor(t[e], d, args) \o ready
        /\ dispatched' = Append(dispatched,
               [name |-> e, args |-> args, by |-> by,
                nreg |-> Len(registered)])
        /\ UNCHANGED <<registered, inflight, ran>>

\* a variant that calls the plain functions itself, before it returns
LocalDispatchInline(e, args, by) ==
    LET t  == TableAfterLookup(handlers, e)
        d  == Len(dispatched) + 1
        us == UnitsFor(t[e], d, args)
        fs == SelectSeq(us, LAMBDA u : ~IsCoroutineFunction(u.h))
    IN  /\ trace' = Append(trace, TraceLine(e, args))
        /\ handlers' = t
        /\ ready' = ready \o SelectSeq(us, LAMBDA u : IsCoroutineFunction(u.h))
        /\ ran' = ran \o [n \in 1..Len(fs) |->
                              [d |-> d, i |-> fs[n].i, h |-> fs[n].h,
                               args |-> args, out |-> "ok"]]
        /\ dispatched' = Append(dispatched,
               [name |-> e, args |-> args, by |-> by,
                nreg |-> Len(registered)])
        /\ UNCHANGED <<registered, inflight>>

\* EventServer.local_dispatch, as one step of the loop (it never awaits)
LocalDispatch(e, args, by) ==
    LET t  == TableAfterLookup(handlers, e)
        d  == Len(dispatched) + 1
    IN  /\ trace' = Append(trace, TraceLine(e, args))
        /\ handlers' = t
        /\ ready' = ready \o UnitsFor(t[e], d, args)
        /\ dispatched' = Append(dispatched,
               [name |-> e, args |-> args, by |-> by,
                nreg |-> Len(registered)])
        /\ UNCHANGED <<registered, inflight, ran>>

\* the number of dispatches that did not come from the monitor
NumCallerDispatch ==
    Cardinality({d \in 1..Len(dispatched) : dispatched[d].by # "monitor"})

\* the number of calls callers have made to the bus
NumBusCalls == Len(registered) + NumCallerDispatch

\* a variant that replays the dispatches of e made so far to the new handler
AddHandlerReplay(e, cb) ==
    /\ NumBusCalls < MaxBusCalls
    /\ handlers' = AddHandlerTo(handlers, e, cb)
    /\ registered' = Append(registered, <<e, cb>>)
    /\ LET past == SelectSeq([d \in 1..Len(dispatched) |-> d],
                             LAMBDA d : dispatched[d].name = e)
       IN  ready' = ready \o
               [n \in 1..Len(past) |->
                   [d |-> past[n], i |-> Len(handlers'[e]), h |-> cb,
                    args |-> dispatched[past[n]].args]]
    /\ UNCHANGED <<inflight, ran, trace, dispatched>>
    /\ UNCHANGED <<mvars, svars, dvars>>

\* a caller registers callback cb under event name e
AddHandler(e, cb) ==
    /\ NumBusCalls < MaxBusCalls
    /\ handlers' = AddHandlerTo(handlers, e, cb)
    /\ registered' = Append(registered, <<e, cb>>)
    /\ UNCHANGED <<ready, inflight, ran, trace, dispatched>>
    /\ UNCHANGED <<mvars, svars, dvars>>

\* an in-process caller calls local_dispatch
CallerDispatch(e, args) ==
    /\ NumBusCalls < MaxBusCalls
    /\ LocalDispatch(e, args, "local")
    /\ UNCHANGED <<mvars, svars, dvars>>

\* EventServer.dispatch, the RPC method: served while the endpoint is open
RemoteDispatch(e, args) ==
    /\ sock = "serving"
    /\ NumBusCalls < MaxBusCalls
    /\ LocalDispatch(e, args, "remote")
    /\ UNCHANGED <<mvars, svars, dvars>>

\* a variant in which an exception of one invocation drops the invocations
\* of the same dispatch that are still queued
ReadyAfterRunAbort(q, out) ==
    IF out = "raise"
    THEN SelectSeq(Tail(q), LAMBDA u : u.d # Head(q).d)
    ELSE Tail(q)

\* what is left of the loop's queue once its first invocation has run with
\* outcome out: call_soon's Handle and ensure_future's Task both keep an
\* exception of the callback to themselves
ReadyAfterRun(q, out) == Tail(q)

\* the outcomes of the first step of an invocation: a plain function returns
\* or raises; a coroutine may also suspend at an await
FirstStepOutcomes(h) ==
    IF IsCoroutineFunction(h) THEN {"ok", "raise", "await"} ELSE {"ok", "raise"}

\* the loop runs the invocation at the head of its queue
LoopRunNext ==
    /\ ready # << >>
    /\ LET u == Head(ready) IN
       \E out \in FirstStepOutcomes(u.h) :
          /\ ran' = Append(ran, [d |-> u.d, i |-> u.i, h |-> u.h,
                                 args |-> u.args, out |-> out])
          /\ ready' = ReadyAfterRun(ready, out)
          /\ inflight' = IF out = "await" THEN inflight \cup {<<u.d, u.i>>}
                         ELSE inflight
    /\ UNCHANGED <<handlers, registered, trace, dispatched>>
    /\ UNCHANGED <<mvars, svars, dvars>>

\* a suspended asynchronous handler runs to its end; nobody reads its result
AsyncFinish(k) ==
    /\ k \in inflight
    /\ inflight' = inflight \ {k}
    /\ UNCHANGED <<handlers, registered, ready, ran, trace, dispatched>>
    /\ UNCHANGED <<mvars, svars, dvars>>

\* ------------------------------------------------------------------ monitor
\* chprefix, the pattern '__keyevent@{}__*' of the instance database
ChPrefix == "__keyevent@DB__*"

\* channel names matching the pattern, as redis sends them (bytes)
ChanBase == <<"_", "_", "k", "e", "y", "e", "v", "e", "n", "t", "@", "1", "_", "_">>
ChanExpired == ChanBase \o <<":", "e", "x", "p", "i", "r", "e", "d">>
ChanDel == ChanBase \o <<":", "d", "e", "l">>
ChanNoColon == ChanBase \o <<"x">>

\* 'expired' (events.py:54)
Expired == <<"e", "x", "p", "i", "r", "e", "d">>

KeyShadow42 == <<"s", "h", "a", "d", "o", "w", ":", "i", "n", "s", "t", "-", "4", "2">>
KeyShadowAB == <<"s", "h", "a", "d", "o", "w", ":", "a", ":", "b">>
KeyShadowBare == <<"s", "h", "a", "d", "o", "w">>
KeyOtherFoo == <<"o", "t", "h", "e", "r", ":", "f", "o", "o">>
KeyOtherShadow == <<"x", ":", "s", "h", "a", "d", "o", "w", ":", "a">>

\* a byte that no UTF-8 text holds, and a key that ends with it
BadByte == "xFF"
KeyNotUtf8 == <<"s", "h", "a", "d", "o", "w", ":", BadByte>>

\* the messages (channel, key) the subscription may deliver
Msgs ==
    {<<ChanExpired, KeyShadow42>>, <<ChanExpired, KeyShadowAB>>,
     <<ChanExpired, KeyShadowBare>>, <<ChanExpired, KeyOtherFoo>>,
     <<ChanExpired, KeyOtherShadow>>, <<ChanDel, KeyShadowAB>>,
     <<ChanNoColon, KeyShadow42>>, <<ChanExpired, KeyNotUtf8>>}

\* get(encoding='utf8') can decode the payload
Decodable(raw) == \A i \in 1..Len(raw) : raw[i] # BadByte

\* msg[0].decode('ascii').split(':'): the fields of the channel name
ChannelFields(msg) == Split(msg[1], ":", -1)

\* a variant that splits without the limit: split(':')[1]
InstIdOfNoLimit(evkey) == Split(evkey, ":", -1)[2]

\* evkey.split(':', 1)[1]
InstIdOf(evkey) == Split(evkey, ":", 1)[2]

\* the condition of events.py:54
IsLeaseExpiry(evname, evkey) ==
    evname = Expired /\ StartsWith(evkey, ShadowPrefix)

\* how the task ends once the finally block is through: the pending
\* exception is raised again, a swallowed cancellation or a break returns
EndOfFinally(exc) == IF exc = "none" THEN "ok" ELSE exc

\* await aioredis.create_redis(...) returns or raises
MonitorCreate ==
    /\ mpc = "create" /\ ~cancelReq
    /\ \/ /\ conn' = "open"
          /\ mpc' = "config_set"
          /\ UNCHANGED mres
       \/ /\ mpc' = "done"
          /\ mres' = "ConnectionError"
          /\ UNCHANGED conn
    /\ UNCHANGED <<mexc, cancelReq, psubs, subs, inbox, nsent, received>>
    /\ UNCHANGED <<evars, svars, dvars>>

\* await redis_sub.config_set(...) returns, or raises: outside the try block
MonitorConfigSet ==
    /\ mpc = "config_set" /\ ~cancelReq
    /\ \/ /\ conn = "open"
          /\ mpc' = "psubscribe"
          /\ UNCHANGED mres
       \/ /\ mpc' = "done"
          /\ mres' = IF conn = "lost" THEN "ConnectionClosedError" ELSE "ReplyError"
    /\ UNCHANGED <<mexc, cancelReq, conn, psubs, subs, inbox, nsent, received>>
    /\ UNCHANGED <<evars, svars, dvars>>

\* await redis_sub.psubscribe(chprefix) returns, or raises: outside the try block
MonitorPsubscribe ==
    /\ mpc = "psubscribe" /\ ~cancelReq
    /\ \/ /\ conn = "open"
          /\ psubs' = psubs \cup {ChPrefix}
          /\ mpc' = "get"
          /\ UNCHANGED mres
       \/ /\ conn = "lost"
          /\ mpc' = "done"
          /\ mres' = "ConnectionClosedError"
          /\ UNCHANGED psubs
    /\ UNCHANGED <<mexc, cancelReq, conn, subs, inbox, nsent, received>>
    /\ UNCHANGED <<evars, svars, dvars>>

\* redis publishes a message on a channel the pattern matches
RedisNotify(msg) ==
    /\ conn = "open" /\ ChPrefix \in psubs
    /\ nsent < MaxNotifs
    /\ nsent' = nsent + 1
    /\ inbox' = Append(inbox, msg)
    /\ UNCHANGED <<mpc, mres, mexc, cancelReq, conn, psubs, subs, received>>
    /\ UNCHANGED <<evars, svars, dvars>>

\* the connection to redis drops; redis forgets the client's subscriptions
ConnLost ==
    /\ conn = "open"
    /\ conn' = "lost"
    /\ psubs' = {}
    /\ subs' = {}
    /\ UNCHANGED <<mpc, mres, mexc, cancelReq, inbox, nsent, received>>
    /\ UNCHANGED <<evars, svars, dvars>>

\* channels[0].get() takes a message and, unless decoding the payload
\* raises, returns it and the loop body runs (events.py:49-56)
MonitorGetMsg ==
    /\ mpc = "get" /\ ~cancelReq
    /\ inbox # << >>
    /\ LET msg    == Head(inbox)
           fields == ChannelFields(msg)
           evkey  == msg[2]
       IN  /\ inbox' = Tail(inbox)
           /\ IF ~Decodable(evkey)
              THEN \* get() raises UnicodeDecodeError: on to the finally block
                   /\ mpc' = "unsubscribe"
                   /\ mexc' = "UnicodeDecodeError"
                   /\ UNCHANGED <<received, evars>>
              ELSE /\ received' = Append(received, msg)
                   /\ IF Len(fields) < 2
                      THEN \* split(':')[1] raises IndexError: on to the
                           \* finally block
                           /\ mpc' = "unsubscribe"
                           /\ mexc' = "IndexError"
                           /\ UNCHANGED evars
                      ELSE /\ UNCHANGED <<mpc, mexc>>
                           /\ IF IsLeaseExpiry(fields[2], evkey)
                              THEN LocalDispatch("instance_terminated",
                                       <<"agent-lost", InstIdOf(evkey)>>,
                                       "monitor")
                              ELSE UNCHANGED evars
    /\ UNCHANGED <<mres, cancelReq, conn, psubs, subs, nsent>>
    /\ UNCHANGED <<svars, dvars>>

\* a variant that connects again when the channel is closed
MonitorGetNoneReconnect ==
    /\ mpc = "get" /\ ~cancelReq
    /\ inbox = << >> /\ conn = "lost"
    /\ mpc' = "create"
    /\ UNCHANGED <<mres, mexc, cancelReq, conn, psubs, subs, inbox, nsent, received>>
    /\ UNCHANGED <<evars, svars, dvars>>

\* channels[0].get() returns None (the channel was closed): break
MonitorGetNone ==
    /\ mpc = "get" /\ ~cancelReq
    /\ inbox = << >> /\ conn = "lost"
    /\ mpc' = "unsubscribe"
    /\ UNCHANGED <<mres, mexc, cancelReq, conn, psubs, subs, inbox, nsent, received>>
    /\ UNCHANGED <<evars, svars, dvars>>

\* a variant that swallows the cancellation inside the loop and receives on
MonitorCancelledSwallowed ==
    /\ cancelReq /\ mpc # "done"
    /\ cancelReq' = FALSE
    /\ IF mpc = "get"
       THEN UNCHANGED <<mpc, mres>>
       ELSE /\ mpc' = "done"
            /\ mres' = "CancelledError"
    /\ UNCHANGED <<mexc, conn, psubs, subs, inbox, nsent, received>>
    /\ UNCHANGED <<evars, svars, dvars>>

\* the loop throws CancelledError into the task at the await it is suspended at
MonitorCancelled ==
    /\ cancelReq /\ mpc # "done"
    /\ cancelReq' = FALSE
    /\ IF mpc = "get"
       THEN \* except asyncio.CancelledError: pass, then the finally block
            /\ mpc' = "unsubscribe"
            /\ UNCHANGED mres
       ELSE \* outside the try block, or inside the finally block: it propagates
            /\ mpc' = "done"
            /\ mres' = "CancelledError"
    /\ UNCHANGED <<mexc, conn, psubs, subs, inbox, nsent, received>>
    /\ UNCHANGED <<evars, svars, dvars>>

\* await redis_sub.unsubscribe(chprefix) returns, then redis_sub.close()
\* (events.py:60-61); on a dropped connection the command may raise instead
MonitorUnsubscribe ==
    /\ mpc = "unsubscribe" /\ ~cancelReq
    /\ \/ /\ subs' = subs \ {ChPrefix}
          /\ conn' = IF conn = "open" THEN "closing" ELSE conn
          /\ mpc' = "wait_closed"
          /\ UNCHANGED mres
       \/ /\ conn = "lost"
          /\ mpc' = "done"
          /\ mres' = "ConnectionClosedError"
          /\ UNCHANGED <<subs, conn>>
    /\ UNCHANGED <<mexc, cancelReq, psubs, inbox, nsent, received>>
    /\ UNCHANGED <<evars, svars, dvars>>

\* the connection close() asked for is closed; redis forgets the client's
\* subscriptions
ConnClosed ==
    /\ conn = "closing"
    /\ conn' = "closed"
    /\ psubs' = {}
    /\ subs' = {}
    /\ UNCHANGED <<mpc, mres, mexc, cancelReq, inbox, nsent, received>>
    /\ UNCHANGED <<evars, svars, dvars>>

\* await redis_sub.wait_closed() returns; the coroutine ends
MonitorWaitClosed ==
    /\ mpc = "wait_closed" /\ ~cancelReq
    /\ conn # "closing"
    /\ mpc' = "done"
    /\ mres' = EndOfFinally(mexc)
    /\ UNCHANGED <<mexc, cancelReq, conn, psubs, subs, inbox, nsent, received>>
    /\ UNCHANGED <<evars, svars, dvars>>

\* ------------------------------------------------------------------ shutdown
\* app['event_redis_monitor_task'].cancel() (events.py:74)
ShutdownCancel ==
    /\ spc = "idle"
    /\ spc' = "sleep"
    /\ cancelReq' = (mpc # "done")
    /\ UNCHANGED <<mpc, mres, mexc, conn, psubs, subs, inbox, nsent, received, sock>>
    /\ UNCHANGED <<evars, dvars>>

\* await asyncio.sleep(0.01) returns: the loop has run its ready callbacks,
\* the step that throws the cancellation into the monitor among them
ShutdownSleepDone ==
    /\ spc = "sleep" /\ ~cancelReq
    /\ spc' = "wait_closed"
    /\ sock' = "closing"
    /\ UNCHANGED <<mvars, evars, dvars>>

\* await app['event_sock'].wait_closed() returns
ShutdownWaitClosed ==
    /\ spc = "wait_closed"
    /\ spc' = "done"
    /\ sock' = "closed"
    /\ UNCHANGED <<mvars, evars, dvars>>

\* ------------------------------------------------------------------ drivers
DigitChars == <<"0", "1", "2", "3", "4", "5", "6", "7", "8", "9">>

\* str(n) for a natural number n
RECURSIVE Str(_)
Str(n) ==
    IF n < 10 THEN <<DigitChars[n + 1]>>
    ELSE Str(n \div 10) \o <<DigitChars[(n % 10) + 1]>>

\* str(uuid.uuid4()) for the n-th value drawn: distinct values give distinct
\* strings, none holding a ':' or a '/'
UuidStr(n) == <<"u">> \o Str(n)

\* '127.0.0.1' (driver.py:134)
Loopback == <<"1", "2", "7", ".", "0", ".", "0", ".", "1">>

\* 'local/' (driver.py:142)
LocalSlash == <<"l", "o", "c", "a", "l", "/">>

\* 'tcp://' (driver.py:110, driver.py:147)
TcpScheme == <<"t", "c", "p", ":", "/", "/">>

\* a variant that always names the loopback address
FormatSockLoopback(ip, port) == TcpScheme \o Loopback \o <<":">> \o Str(port)

\* 'tcp://{0}:{1}'.format(ip, port)
FormatSock(ip, port) == TcpScheme \o ip \o <<":">> \o Str(port)

\* 'local/{0}'.format(uuid)
FormatLocalId(u) == LocalSlash \o u

\* an instance of another host the orchestrator holds a record of
RemoteInst == [id |-> <<"i", "-", "7">>, ip |-> <<"1", "0", ".", "0", ".", "0", ".", "5">>]

\* the agent ports callers pass
Ports == {5003, 80}

NoInst == [id |-> << >>, ip |-> << >>]
NoKernel == [id |-> << >>, instance |-> NoInst, agent_sock |-> << >>]

\* a driver call as the history keeps it
Call(op, drv, pc, res, line) ==
    [op |-> op, drv |-> drv, pc |-> pc, res |-> res, line |-> line,
     inst |-> NoInst, port |-> 0, kernel |-> NoKernel, proc |-> 0,
     after |-> FALSE, waited |-> FALSE, name |-> "", cls |-> "none"]

\* the instances launch_instance has returned, as the caller wraps them
Launched ==
    {calls[c].inst : c \in {x \in 1..Len(calls) :
        calls[x].op = "launch_instance" /\ calls[x].res = "ok"}}

\* the kernels create_kernel has returned
Kernels ==
    {calls[c].kernel : c \in {x \in 1..Len(calls) :
        calls[x].op = "create_kernel" /\ calls[x].res = "ok"}}

\* the kernels a destroy_kernel call has completed for
DestroyedKernels ==
    {calls[c].kernel.id : c \in {x \in 1..Len(calls) :
        calls[x].op = "destroy_kernel" /\ calls[x].res = "ok"}}

\* del self.agents[kid]
WithoutKey(tbl, kid) == [k \in DOMAIN tbl \ {kid} |-> tbl[k]]

\* _driver_type_to_class (driver.py:159-162)
DriverTypeToClass == ("local" :> "LocalDriver") @@ ("aws_docker" :> "AWSDockerDriver")

\* the names callers pass to create_driver
DriverNames == {"local", "aws_docker", "cloud", "ec2"}

\* create_driver(name): the table lookup raises KeyError for a name that is
\* not a key, otherwise the class is instantiated (driver.py:164-169)
CreateDriver(name) ==
    /\ Len(calls) < MaxCalls
    /\ calls' = Append(calls,
           IF name \in DOMAIN DriverTypeToClass
           THEN [Call("create_driver", "none", "done", "ok", 169)
                   EXCEPT !.name = name, !.cls = DriverTypeToClass[name]]
           ELSE [Call("create_driver", "none", "done", "KeyError", 168)
                   EXCEPT !.name = name])
    /\ UNCHANGED <<agents, procs, nuuid, destroyedInst>>
    /\ UNCHANGED <<evars, mvars, svars>>

\* LocalDriver.launch_instance: nothing to await
LocalLaunchInstance ==
    /\ Len(calls) < MaxCalls
    /\ nuuid' = nuuid + 1
    /\ calls' = Append(calls,
           [Call("launch_instance", "local", "done", "ok", 134)
              EXCEPT !.inst = [id |-> UuidStr(nuuid + 1), ip |-> Loopback]])
    /\ UNCHANGED <<agents, procs, destroyedInst>>
    /\ UNCHANGED <<evars, mvars, svars>>

\* AWSDockerDriver.launch_instance: the name sepc is not defined
AwsLaunchInstance ==
    /\ Len(calls) < MaxCalls
    /\ calls' = Append(calls,
           Call("launch_instance", "aws_docker", "done", "NameError", 86))
    /\ UNCHANGED <<agents, procs, nuuid, destroyedInst>>
    /\ UNCHANGED <<evars, mvars, svars>>

\* LocalDriver.destroy_instance: pass
LocalDestroyInstance(inst) ==
    /\ Len(calls) < MaxCalls
    /\ calls' = Append(calls,
           [Call("destroy_instance", "local", "done", "ok", 138)
              EXCEPT !.inst = inst])
    /\ destroyedInst' = destroyedInst \cup {inst.id}
    /\ UNCHANGED <<agents, procs, nuuid>>
    /\ UNCHANGED <<evars, mvars, svars>>

\* AWSDockerDriver.destroy_instance: raise NotImplementedError()
AwsDestroyInstance(inst) ==
    /\ Len(calls) < MaxCalls
    /\ calls' = Append(calls,
           [Call("destroy_instance", "aws_docker", "done", "NotImplementedError", 94)
              EXCEPT !.inst = inst])
    /\ UNCHANGED <<agents, procs, nuuid, destroyedInst>>
    /\ UNCHANGED <<evars, mvars, svars>>

\* LocalDriver.create_kernel up to the await of create_subprocess_exec
\* (driver.py:142-146)
LocalCreateKernelStart(inst, port) ==
    /\ Len(calls) < MaxCalls
    /\ nuuid' = nuuid + 1
    /\ calls' = Append(calls,
           [Call("create_kernel", "local", "spawn", "pending", 146)
              EXCEPT !.inst = inst, !.port = port,
                     !.kernel = [id |-> FormatLocalId(UuidStr(nuuid + 1)),
                                 instance |-> inst, agent_sock |-> << >>]])
    /\ UNCHANGED <<agents, procs, destroyedInst>>
    /\ UNCHANGED <<evars, mvars, svars>>

\* the Kernel create_kernel returns for call record c
KernelOf(c) == [c.kernel EXCEPT !.agent_sock = FormatSock(c.inst.ip, c.port)]

\* create_subprocess_exec returns the process, or raises (driver.py:146-149)
LocalCreateKernelSpawned(c) ==
    /\ calls[c].op = "create_kernel" /\ calls[c].pc = "spawn"
    /\ \/ LET p == Cardinality(DOMAIN procs) + 1
              k == KernelOf(calls[c])
          IN  /\ procs' = procs @@ (p :> "running")
              /\ agents' = (k.id :> p) @@ agents
              /\ calls' = [calls EXCEPT ![c].pc = "done", ![c].res = "ok",
                                        ![c].line = 149, ![c].proc = p,
                                        ![c].kernel = k]
       \/ /\ calls' = [calls EXCEPT ![c].pc = "done", ![c].res = "OSError"]
          /\ UNCHANGED <<agents, procs>>
    /\ UNCHANGED <<nuuid, destroyedInst>>
    /\ UNCHANGED <<evars, mvars, svars>>

\* AWSDockerDriver.create_kernel: the name docker is not defined
AwsCreateKernel(inst, port) ==
    /\ Len(calls) < MaxCalls
    /\ calls' = Append(calls,
           [Call("create_kernel", "aws_docker", "done", "NameError", 98)
              EXCEPT !.inst = inst, !.port = port])
    /\ UNCHANGED <<agents, procs, nuuid, destroyedInst>>
    /\ UNCHANGED <<evars, mvars, svars>>

\* a variant that keeps the entry
AgentsKept(tbl, kid) == tbl

\* the registry once the process of kernel id kid is confirmed exited
\* (driver.py:156)
AgentsAfterWait(tbl, kid) == WithoutKey(tbl, kid)

\* LocalDriver.destroy_kernel up to the await of proc.wait()
\* (driver.py:153-155): the lookup, then terminate()
LocalDestroyKernelStart(k) ==
    /\ Len(calls) < MaxCalls
    /\ LET c0 == [Call("destroy_kernel", "local", "done", "KeyError", 153)
                    EXCEPT !.kernel = k, !.inst = k.instance,
                           !.after = k.id \in DestroyedKernels]
       IN
       IF k.id \notin DOMAIN agents
       THEN \* self.agents[kernel.id] raises KeyError
            /\ calls' = Append(calls, c0)
            /\ UNCHANGED procs
       ELSE LET p == agents[k.id] IN
            \/ \* terminate() signals the process; the call awaits its exit
               /\ procs' = [procs EXCEPT ![p] =
                               IF @ = "running" THEN "signalled" ELSE @]
               /\ calls' = Append(calls,
                      [c0 EXCEPT !.pc = "wait", !.res = "pending",
                                 !.line = 155, !.proc = p])
            \/ \* the loop has seen the process exit: terminate() raises
               /\ procs[p] = "exited"
               /\ calls' = Append(calls,
                      [c0 EXCEPT !.res = "ProcessLookupError",
                                 !.line = 154, !.proc = p])
               /\ UNCHANGED procs
    /\ UNCHANGED <<agents, nuuid, destroyedInst>>
    /\ UNCHANGED <<evars, mvars, svars>>

\* a variant that deletes the entry without awaiting the exit
LocalDestroyKernelNoWait(c) ==
    /\ calls[c].op = "destroy_kernel" /\ calls[c].pc = "wait"
    /\ LET kid == calls[c].kernel.id IN
       IF kid \in DOMAIN agents
       THEN /\ agents' = AgentsAfterWait(agents, kid)
            /\ calls' = [calls EXCEPT ![c].pc = "done", ![c].res = "ok",
                                      ![c].line = 156, ![c].waited = TRUE]
       ELSE /\ calls' = [calls EXCEPT ![c].pc = "done", ![c].res = "KeyError",
                                      ![c].line = 156, ![c].waited = TRUE]
            /\ UNCHANGED agents
    /\ UNCHANGED <<procs, nuuid, destroyedInst>>
    /\ UNCHANGED <<evars, mvars, svars>>

\* proc.wait() returns, then del self.agents[kernel.id] (driver.py:155-156)
LocalDestroyKernelWaited(c) ==
    /\ calls[c].op = "destroy_kernel" /\ calls[c].pc = "wait"
    /\ procs[calls[c].proc] = "exited"
    /\ LET kid == calls[c].kernel.id IN
       IF kid \in DOMAIN agents
       THEN /\ agents' = AgentsAfterWait(agents, kid)
            /\ calls' = [calls EXCEPT ![c].pc = "done", ![c].res = "ok",
                                      ![c].line = 156, ![c].waited = TRUE]
       ELSE \* del raises KeyError
            /\ calls' = [calls EXCEPT ![c].pc = "done", ![c].res = "KeyError",
                                      ![c].line = 156, ![c].waited = TRUE]
            /\ UNCHANGED agents
    /\ UNCHANGED <<procs, nuuid, destroyedInst>>
    /\ UNCHANGED <<evars, mvars, svars>>

\* the task running destroy_kernel is cancelled while it awaits proc.wait():
\* CancelledError leaves the coroutine at driver.py:155
LocalDestroyKernelCancelled(c) ==
    /\ calls[c].op = "destroy_kernel" /\ calls[c].pc = "wait"
    /\ calls' = [calls EXCEPT ![c].pc = "done", ![c].res = "CancelledError"]
    /\ UNCHANGED <<agents, procs, nuuid, destroyedInst>>
    /\ UNCHANGED <<evars, mvars, svars>>

\* AWSDockerDriver.destroy_kernel: raise NotImplementedError()
AwsDestroyKernel(k) ==
    /\ Len(calls) < MaxCalls
    /\ calls' = Append(calls,
           [Call("destroy_kernel", "aws_docker", "done", "NotImplementedError", 117)
              EXCEPT !.kernel = k, !.inst = k.instance])
    /\ UNCHANGED <<agents, procs, nuuid, destroyedInst>>
    /\ UNCHANGED <<evars, mvars, svars>>

\* an agent process exits: after SIGTERM, or by itself
ProcExit(p) ==
    /\ procs[p] # "exited"
    /\ procs' = [procs EXCEPT ![p] = "exited"]
    /\ UNCHANGED <<agents, nuuid, calls, destroyedInst>>
    /\ UNCHANGED <<evars, mvars, svars>>

\* ------------------------------------------------------------------ specification
\* the state init(app) leaves: the bus without handlers, the endpoint
\* serving, the monitor task scheduled
InitEvents ==
    /\ handlers = << >>
    /\ registered = << >>
    /\ ready = << >>
    /\ inflight = {}
    /\ ran = << >>
    /\ trace = << >>
    /\ dispatched = << >>
    /\ mpc = "create"
    /\ mres = "running"
    /\ mexc = "none"
    /\ cancelReq = FALSE
    /\ conn = "none"
    /\ psubs = {}
    /\ subs = {}
    /\ inbox = << >>
    /\ nsent = 0
    /\ received = << >>
    /\ spc = "idle"
    /\ sock = "serving"

\* a freshly constructed driver: LocalDriver.__init__ sets agents = dict()
InitDriver ==
    /\ agents = << >>
    /\ procs = << >>
    /\ nuuid = 0
    /\ calls = << >>
    /\ destroyedInst = {}

Init == InitEvents /\ InitDriver

\* the bus in service: registration, the two ingress paths and the loop
NextBus ==
    \/ \E e \in EventNames, cb \in Callbacks : AddHandler(e, cb)
    \/ \E e \in EventNames, a \in CallerArgs : CallerDispatch(e, a)
    \/ \E e \in EventNames, a \in CallerArgs : RemoteDispatch(e, a)
    \/ LoopRunNext
    \/ \E k \in inflight : AsyncFinish(k)

\* the monitor task, redis and shutdown
NextMonitor ==
    \/ MonitorCreate
    \/ MonitorConfigSet
    \/ MonitorPsubscribe
    \/ \E m \in Msgs : RedisNotify(m)
    \/ ConnLost
    \/ MonitorGetMsg
    \/ MonitorGetNone
    \/ MonitorCancelled
    \/ MonitorUnsubscribe
    \/ ConnClosed
    \/ MonitorWaitClosed
    \/ ShutdownCancel
    \/ ShutdownSleepDone
    \/ ShutdownWaitClosed

\* the drivers' operations, as the orchestrator may call them, and the
\* agent processes
NextDriver ==
    \/ \E n \in DriverNames : CreateDriver(n)
    \/ LocalLaunchInstance
    \/ AwsLaunchInstance
    \/ \E i \in Launched \cup {RemoteInst} : LocalDestroyInstance(i)
    \/ \E i \in Launched \cup {RemoteInst} : AwsDestroyInstance(i)
    \/ \E i \in Launched \cup {RemoteInst}, p \in Ports : LocalCreateKernelStart(i, p)
    \/ \E c \in 1..Len(calls) : LocalCreateKernelSpawned(c)
    \/ \E i \in Launched \cup {RemoteInst}, p \in Ports : AwsCreateKernel(i, p)
    \/ \E k \in Kernels : LocalDestroyKernelStart(k)
    \/ \E c \in 1..Len(calls) : LocalDestroyKernelWaited(c)
    \/ \E c \in 1..Len(calls) : LocalDestroyKernelCancelled(c)
    \/ \E k \in Kernels : AwsDestroyKernel(k)
    \/ \E p \in DOMAIN procs : ProcExit(p)

vars == <<evars, mvars, svars, dvars>>

SpecBus == Init /\ [][NextBus]_vars

SpecMonitor == Init /\ [][NextMonitor]_vars

SpecDriver == Init /\ [][NextDriver]_vars

\* notifications of lease expiries, and one of another key
LeaseMsgs ==
    {<<ChanExpired, KeyShadow42>>, <<ChanExpired, KeyShadowAB>>,
     <<ChanExpired, KeyOtherFoo>>}

\* the monitor at work on a bus whose instance_terminated handlers are
\* being registered and run by the loop
NextMonitorBus ==
    \/ /\ Len(registered) < MaxMonitorHandlers
       /\ \E cb \in Callbacks : AddHandler("instance_terminated", cb)
    \/ LoopRunNext
    \/ \E k \in inflight : AsyncFinish(k)
    \/ MonitorCreate
    \/ MonitorConfigSet
    \/ MonitorPsubscribe
    \/ \E m \in LeaseMsgs : RedisNotify(m)
    \/ ConnLost
    \/ MonitorGetMsg
    \/ MonitorGetNone
    \/ MonitorUnsubscribe
    \/ MonitorWaitClosed

SpecMonitorBus == Init /\ [][NextMonitorBus]_vars

\* the event loop runs every step of the monitor task that is ready to run
\* (a reply, a message or a cancellation it waits for has arrived), and
\* redis completes the close it was asked for
FairMonitor ==
    /\ WF_vars(MonitorCreate)
    /\ WF_vars(MonitorConfigSet)
    /\ WF_vars(MonitorPsubscribe)
    /\ WF_vars(MonitorGetMsg)
    /\ WF_vars(MonitorGetNone)
    /\ WF_vars(MonitorCancelled)
    /\ WF_vars(MonitorUnsubscribe)
    /\ WF_vars(ConnClosed)
    /\ WF_vars(MonitorWaitClosed)

SpecMonitorFair == SpecMonitor /\ FairMonitor

\* ------------------------------------------------------------------ properties
\* the dispatches the monitor made, in order
MonitorDispatches == SelectSeq(dispatched, LAMBDA d : d.by = "monitor")

\* msg is the expiry notification of a key of the form shadow:<instance_id>
IsShadowExpiry(msg) ==
    /\ msg[1] = ChanExpired
    /\ Len(msg[2]) >= Len(ShadowPrefix)
    /\ SubSeq(msg[2], 1, Len(ShadowPrefix)) = ShadowPrefix

\* the expiry notifications of shadow keys the monitor received, in order
ShadowExpiries == SelectSeq(received, IsShadowExpiry)

\* what follows 'shadow:' in the key
LeaseInstance(key) == SubSeq(key, Len(ShadowPrefix) + 1, Len(key))

\* C1: the monitor dispatches exactly one instance_terminated event with
\* payload ("agent-lost", <instance_id>) for each expiry notification of a
\* key shadow:<instance_id> it receives, in the order received, and no event
\* for any other notification: the events it dispatched are as many as the
\* shadow-key expiry notifications it received.
C1_LeaseExpiryEvents ==
    /\ Len(MonitorDispatches) = Len(ShadowExpiries)
    /\ \A n \in 1..Len(MonitorDispatches) :
          /\ MonitorDispatches[n].name = "instance_terminated"
          /\ MonitorDispatches[n].args =
                <<"agent-lost", LeaseInstance(ShadowExpiries[n][2])>>

\* shadow:a:b has expired, then other:foo: one event, for instance a:b
C1_Witness ==
    /\ received = <<(<<ChanExpired, KeyShadowAB>>), (<<ChanExpired, KeyOtherFoo>>)>>
    /\ Len(dispatched) = 1
    /\ dispatched[1].by = "monitor"
    /\ dispatched[1].args = <<"agent-lost", (<<"a", ":", "b">>)>>

\* the number of add_handler(e, h) calls among the first n
RegCount(e, h, n) ==
    Cardinality({j \in 1..n : registered[j] = <<e, h>>})

\* the invocations of h for dispatch d that have started
Invoked(d, h) == {n \in 1..Len(ran) : ran[n].d = d /\ ran[n].h = h}

\* the invocations of h for dispatch d still in the loop's queue
Pending(d, h) == {n \in 1..Len(ready) : ready[n].d = d /\ ready[n].h = h}

\* C2: for every dispatch of (e, x), each callback is invoked with x as many
\* times as add_handler registered it under e before the dispatch (two
\* handlers once each, a callback registered twice twice), and callbacks
\* registered under other names only are not invoked: the started and the
\* queued invocations together are that many, and all have started once the
\* loop's queue is empty.
C2_InvokedAsRegistered ==
    \A d \in 1..Len(dispatched), h \in Callbacks :
        /\ Cardinality(Invoked(d, h)) + Cardinality(Pending(d, h))
              = RegCount(dispatched[d].name, h, dispatched[d].nreg)
        /\ \A n \in Invoked(d, h) : ran[n].args = dispatched[d].args
        /\ \A n \in Pending(d, h) : ready[n].args = dispatched[d].args

\* h1 was registered twice under "e" and once dispatched to: it ran twice
\* with x
C2_Witness ==
    /\ registered = <<(<<"e", "h1">>), (<<"e", "h1">>)>>
    /\ Len(dispatched) = 1
    /\ dispatched[1].name = "e" /\ dispatched[1].args = <<"x">>
    /\ ready = << >>
    /\ Cardinality(Invoked(1, "h1")) = 2
    /\ \A n \in 1..Len(ran) : ran[n].args = <<"x">>

\* the step is a dispatch of a name no handler is registered under
DispatchWithoutHandlers ==
    /\ Len(dispatched') = Len(dispatched) + 1
    /\ LET d == dispatched'[Len(dispatched')]
       IN  \A h \in Callbacks : RegCount(d.name, h, d.nreg) = 0

\* C3, as claimed: a dispatch of a name with zero registered handlers has no
\* effect other than the trace.
C3_NoEffectButTrace ==
    [][DispatchWithoutHandlers =>
          UNCHANGED <<handlers, registered, ready, inflight, ran>>]_vars

\* C3, amended: a dispatch of a name with zero registered handlers schedules
\* no invocation and changes no registered handler list; besides the trace
\* line its only effect is that a name the table did not hold is entered
\* with an empty list.
C3_NoInvocationScheduled ==
    [][DispatchWithoutHandlers =>
          LET d == dispatched'[Len(dispatched')] IN
          /\ UNCHANGED <<registered, ready, inflight, ran>>
          /\ trace' = Append(trace, TraceLine(d.name, d.args))
          /\ DOMAIN handlers' = DOMAIN handlers \cup {d.name}
          /\ handlers'[d.name] = << >>
          /\ \A k \in DOMAIN handlers : handlers'[k] = handlers[k]]_vars

\* "instance_terminated" was dispatched with h1 registered under "e" only:
\* nothing is queued, nothing ran
C3_Witness ==
    /\ registered = <<(<<"e", "h1">>)>>
    /\ Len(dispatched) = 1
    /\ dispatched[1].name = "instance_terminated"
    /\ dispatched[1].nreg = 1
    /\ ready = << >> /\ ran = << >>
    /\ handlers["instance_terminated"] = << >>

\* the monitor task has ended
MonitorEnded == mpc = "done"

\* the connection is released and redis holds no subscription for it
CleanedUp == conn \notin {"open", "closing"} /\ psubs = {} /\ subs = {}

\* C4, as claimed: once the monitor task has acquired the connection, it
\* ends only with the subscription removed and the connection released, on
\* every path (end of the loop, cancellation, a failure in set-up or loop).
C4_CleanupOnEveryExit ==
    (MonitorEnded /\ conn # "none") => CleanedUp

\* C5, as claimed: when shutdown has returned, the monitor task is stopped
\* (and with it its cleanup is over).
C5_ShutdownWaitsForMonitor ==
    spc = "done" => MonitorEnded

\* the local driver's destroy_kernel calls
LocalDestroys ==
    {c \in 1..Len(calls) :
        calls[c].op = "destroy_kernel" /\ calls[c].drv = "local"}

\* C6: after a destroy_kernel call has completed successfully the registry
\* holds no handle for the kernel and its process has exited, and every
\* destroy_kernel call made for the kernel after that ends at once with the
\* lookup's KeyError (the not-found condition), before any signal is sent.
C6_DestroyedKernelNotFound ==
    \A c \in LocalDestroys :
        /\ calls[c].res = "ok" =>
              /\ calls[c].kernel.id \notin DOMAIN agents
              /\ procs[calls[c].proc] = "exited"
        /\ calls[c].after =>
              /\ calls[c].pc = "done"
              /\ calls[c].res = "KeyError" /\ calls[c].line = 153
              /\ calls[c].proc = 0

\* a kernel was created and destroyed, and destroyed again: not found
C6_Witness ==
    /\ Len(calls) = 3
    /\ calls[1].op = "create_kernel" /\ calls[1].res = "ok"
    /\ calls[2].op = "destroy_kernel" /\ calls[2].res = "ok"
    /\ calls[3].op = "destroy_kernel" /\ calls[3].after
    /\ calls[3].kernel = calls[1].kernel
    /\ calls[3].res = "KeyError"
    /\ agents = << >>

\* C7, as claimed: no destroy_kernel call that has waited for the exit of
\* the kernel's process (its teardown succeeded) ends in an error, also when
\* another call for the same kernel was suspended at the same wait.
C7_NoErrorAfterTeardown ==
    \A c \in LocalDestroys :
        calls[c].waited => calls[c].res = "ok"

\* C8, as claimed: for every driver variant launch_instance() succeeds, and
\* so does destroy_instance(id) on the id it returned.
C8_LaunchThenDestroySucceeds ==
    \A c \in 1..Len(calls) :
        /\ calls[c].op = "launch_instance" => calls[c].res = "ok"
        /\ (/\ calls[c].op = "destroy_instance"
            /\ \E l \in 1..Len(calls) :
                  /\ calls[l].op = "launch_instance" /\ calls[l].res = "ok"
                  /\ calls[l].drv = calls[c].drv /\ calls[l].inst = calls[c].inst)
              => calls[c].res = "ok"

\* str.rfind: the greatest index of c in s, 0 when there is none
LastIndexOf(s, c) ==
    LET is == {i \in 1..Len(s) : s[i] = c}
    IN  IF is = {} THEN 0 ELSE CHOOSE i \in is : \A j \in is : j <= i

\* the number a string of decimal digits denotes; -1 when it is none
RECURSIVE ParseNat(_)
ParseNat(s) ==
    IF s = << >> THEN -1
    ELSE LET ds == {d \in 0..9 : DigitChars[d + 1] = s[Len(s)]}
             hi == IF Len(s) = 1 THEN 0 ELSE ParseNat(SubSeq(s, 1, Len(s) - 1))
         IN  IF ds = {} \/ hi < 0 THEN -1
             ELSE 10 * hi + (CHOOSE d \in ds : TRUE)

\* the host and the port an address tcp://<host>:<port> names
SockHost(a) == SubSeq(a, Len(TcpScheme) + 1, LastIndexOf(a, ":") - 1)
SockPort(a) == ParseNat(SubSeq(a, LastIndexOf(a, ":") + 1, Len(a)))

\* C9: every successful create_kernel(instance, port) returns a Kernel bound
\* to that instance whose agent socket is tcp://<instance.ip>:<port>; the
\* local backend's kernel identifier starts with "local/".
C9_KernelAddress ==
    \A c \in 1..Len(calls) :
        (calls[c].op = "create_kernel" /\ calls[c].res = "ok") =>
            LET k == calls[c].kernel IN
            /\ k.instance = calls[c].inst
            /\ StartsWith(k.agent_sock, TcpScheme)
            /\ SockHost(k.agent_sock) = calls[c].inst.ip
            /\ SockPort(k.agent_sock) = calls[c].port
            /\ calls[c].drv = "local" => StartsWith(k.id, LocalSlash)

\* the local driver launched an instance and created a kernel on it with
\* port 5003: its agent socket is tcp://127.0.0.1:5003
C9_Witness ==
    /\ Len(calls) >= 2
    /\ calls[1].op = "launch_instance" /\ calls[1].drv = "local"
    /\ calls[2].op = "create_kernel" /\ calls[2].res = "ok"
    /\ calls[2].inst = calls[1].inst
    /\ calls[2].kernel.agent_sock =
          <<"t", "c", "p", ":", "/", "/", "1", "2", "7", ".", "0", ".", "0",
            ".", "1", ":", "5", "0", "0", "3">>
    /\ StartsWith(calls[2].kernel.id, LocalSlash)
    /\ calls[2].kernel.id \in DOMAIN agents

\* the number of handlers dispatch d found registered under its name
HandlerCount(d) ==
    Cardinality({j \in 1..dispatched[d].nreg :
                    registered[j][1] = dispatched[d].name})

\* invocation i of dispatch d has started, or is queued
Started(d, i) == \E m \in 1..Len(ran) : ran[m].d = d /\ ran[m].i = i
Queued(d, i) == \E m \in 1..Len(ready) : ready[m].d = d /\ ready[m].i = i

\* C10: an error raised inside one handler of an event does not keep the
\* event's other handlers from running: whenever an invocation of a dispatch
\* has raised, every other handler of that dispatch has started or is still
\* queued, and never both; with the queue empty, all of them have run.
C10_RaiseDoesNotStopOthers ==
    \A n \in 1..Len(ran) :
        ran[n].out = "raise" =>
            \A i \in 1..HandlerCount(ran[n].d) :
                Started(ran[n].d, i) # Queued(ran[n].d, i)

\* h1 and h2 are registered under "e"; h1 raised, and h2 ran after it
C10_Witness ==
    /\ registered = <<(<<"e", "h1">>), (<<"e", "h2">>)>>
    /\ Len(dispatched) = 1 /\ dispatched[1].name = "e"
    /\ ready = << >>
    /\ Len(ran) = 2
    /\ ran[1].h = "h1" /\ ran[1].out = "raise"
    /\ ran[2].h = "h2" /\ ran[2].out = "ok"

\* the create_driver calls made so far
CreateDriverCalls == {c \in 1..Len(calls) : calls[c].op = "create_driver"}

\* the backend identifiers the specification recognizes
RecognizedBackends == {"local", "cloud"}

\* C11: create_driver(name) constructs a driver for each name of the closed
\* set {local, cloud}, and for every other name it fails with
\* ConfigurationError and constructs no driver
C11_ClosedSetOfBackends ==
    \A c \in CreateDriverCalls :
        IF calls[c].name \in RecognizedBackends
        THEN calls[c].res = "ok" /\ calls[c].cls # "none"
        ELSE calls[c].res = "ConfigurationError" /\ calls[c].cls = "none"

\* the monitor is past its receive loop
LoopLeft == mpc \in {"unsubscribe", "wait_closed", "done"}

\* the receive is about to yield the closed signal: the connection is lost
\* and nothing is buffered
AtClosedSignal == mpc = "get" /\ conn = "lost" /\ inbox = << >> /\ ~cancelReq

\* C12: when the connection is lost and the receive yields the closed
\* signal, the monitor leaves its loop for the cleanup; from then on it
\* dispatches nothing, never connects or subscribes again, and (the loop
\* running its steps) the task ends
C12_ConnectionLossEndsMonitor ==
    /\ [][(AtClosedSignal /\ mpc' # mpc) => mpc' = "unsubscribe"]_vars
    /\ [][LoopLeft => /\ LoopLeft'
                      /\ MonitorDispatches' = MonitorDispatches
                      /\ psubs' \subseteq psubs
                      /\ (conn # "open" => conn' # "open")]_vars
    /\ ((mpc = "get" /\ conn = "lost") ~> MonitorEnded)

\* the monitor dispatched, lost its connection, got the closed signal and ended
C12_Witness ==
    /\ MonitorEnded /\ conn = "lost" /\ mexc = "none" /\ spc = "idle"
    /\ Len(MonitorDispatches) >= 1

\* C13: a failure raised in the receive loop, other than the monitor's own
\* cancellation, is what the monitor task ends with: it is neither swallowed
\* nor replaced by another outcome
C13_FailureIsTaskOutcome ==
    (MonitorEnded /\ mexc # "none") => mres = mexc

\* the callbacks registered under the name of dispatch d before it was made,
\* in registration order
RegisteredFor(d) ==
    LET pre == SubSeq(registered, 1, dispatched[d].nreg)
        sel == SelectSeq(pre, LAMBDA r : r[1] = dispatched[d].name)
    IN  [i \in 1..Len(sel) |-> sel[i][2]]

\* the position in the start order of invocation i of dispatch d
StartIndex(d, i) == CHOOSE m \in 1..Len(ran) : ran[m].d = d /\ ran[m].i = i

\* C14: for every dispatch with handlers registered in the order h1, ...,
\* hn, synchronous or asynchronous, invocation i is of hi, the invocations
\* are queued in that order and start in that order: hi has started, and
\* started earlier, whenever a later hj has started
C14_StartInRegistrationOrder ==
    \A d \in 1..Len(dispatched) :
        LET hs == RegisteredFor(d) IN
        /\ \A m \in 1..Len(ran) :
              ran[m].d = d =>
                  ran[m].i \in 1..Len(hs) /\ ran[m].h = hs[ran[m].i]
        /\ \A i \in 1..Len(hs), j \in 1..Len(hs) :
              (i < j /\ Started(d, j)) =>
                  Started(d, i) /\ StartIndex(d, i) < StartIndex(d, j)
        /\ \A m \in 1..Len(ready), n \in 1..Len(ready) :
              (m < n /\ ready[m].d = d /\ ready[n].d = d) =>
                  ready[m].i < ready[n].i

\* the coroutine h2 was registered before the plain function h1; one
\* dispatch started h2, which is still suspended, and then h1
C14_Witness ==
    /\ registered = <<(<<"e", "h2">>), (<<"e", "h1">>)>>
    /\ Len(dispatched) = 1 /\ dispatched[1].name = "e"
    /\ Len(ran) = 2
    /\ ran[1].h = "h2" /\ ran[1].out = "await"
    /\ ran[2].h = "h1"
    /\ <<1, 1>> \in inflight

\* the processes the registry holds a handle of
Registered == {agents[kid] : kid \in DOMAIN agents}

\* every process that has not exited has its handle in the registry
NoOrphan == \A p \in DOMAIN procs : procs[p] # "exited" => p \in Registered

\* a destroy_kernel call has signalled process p and awaits its exit
AwaitedBy(p) ==
    \E c \in 1..Len(calls) :
        calls[c].op = "destroy_kernel" /\ calls[c].pc = "wait" /\ calls[c].proc = p

\* C15: the local driver's destroy_kernel removes a registry entry only once
\* the process was signalled by it and has exited, and in every reachable
\* state each spawned process that has not exited has its handle in the
\* registry, also after a destroy_kernel that was cancelled or that failed
C15_NoOrphanedProcess ==
    /\ []NoOrphan
    /\ [][\A kid \in DOMAIN agents :
             kid \notin DOMAIN agents' =>
                 procs[agents[kid]] = "exited" /\ AwaitedBy(agents[kid])]_vars

\* a destroy_kernel call was cancelled at its wait: the process it signalled
\* has not exited and its handle is still registered
C15_Witness ==
    \E c \in 1..Len(calls) :
        /\ calls[c].op = "destroy_kernel" /\ calls[c].res = "CancelledError"
        /\ procs[calls[c].proc] = "signalled"
        /\ calls[c].kernel.id \in DOMAIN agents
        /\ agents[calls[c].kernel.id] = calls[c].proc

\* the number of registrations made under event name e
NumRegisteredUnder(e) ==
    Cardinality({j \in 1..Len(registered) : registered[j][1] = e})

\* the step is a call of local_dispatch
DispatchStep == Len(dispatched') = Len(dispatched) + 1

\* C16: no handler body, synchronous or asynchronous, begins inside the
\* dispatching call: the step of local_dispatch starts no invocation and
\* leaves one queued per handler; each invocation starts later in a step of
\* its own, and that step changes nothing of the bus
C16_HandlersRunAfterDispatch ==
    /\ [][DispatchStep =>
             /\ ran' = ran /\ inflight' = inflight
             /\ LET d == Len(dispatched') IN
                \A i \in 1..NumRegisteredUnder(dispatched'[d].name) :
                    \E m \in 1..Len(ready') :
                        ready'[m].d = d /\ ready'[m].i = i]_vars
    /\ [][ran' # ran =>
             /\ Len(ran') = Len(ran) + 1
             /\ UNCHANGED <<handlers, registered, trace, dispatched>>]_vars

\* local_dispatch has returned for a dispatch to a plain function and a
\* coroutine: both are queued and neither has begun
C16_Witness ==
    /\ registered = <<(<<"e", "h1">>), (<<"e", "h2">>)>>
    /\ Len(dispatched) = 1 /\ dispatched[1].name = "e"
    /\ ran = << >> /\ inflight = {}
    /\ Len(ready) = 2
    /\ ready[1].h = "h1" /\ ready[2].h = "h2"

\* the invocations of dispatch d: the started ones and the queued ones
StartedOf(d) == SelectSeq(ran, LAMBDA u : u.d = d)
QueuedOf(d) == SelectSeq(ready, LAMBDA u : u.d = d)

\* C17: a handler registered under e after a dispatch of e is never invoked
\* for that dispatch, also when it is registered while invocations of the
\* dispatch are queued or running: a registration adds no invocation to any
\* dispatch made before it, and a dispatch never has more invocations than
\* registrations that preceded it
C17_NoReplayToLateHandlers ==
    /\ [][Len(registered') = Len(registered) + 1 =>
             \A d \in 1..Len(dispatched) :
                 StartedOf(d)' = StartedOf(d) /\ QueuedOf(d)' = QueuedOf(d)]_vars
    /\ [](\A d \in 1..Len(dispatched) :
             Len(StartedOf(d)) + Len(QueuedOf(d)) <= HandlerCount(d))

\* h2 was registered under "e" after the one dispatch of "e", made when
\* only h1 was registered: h1 ran for it and nothing is left to run
C17_Witness ==
    /\ registered = <<(<<"e", "h1">>), (<<"e", "h2">>)>>
    /\ Len(dispatched) = 1
    /\ dispatched[1].name = "e" /\ dispatched[1].nreg = 1
    /\ ready = << >>
    /\ Len(ran) = 1 /\ ran[1].h = "h1"

\* a destroy_instance call of driver drv completed for instance id before
\* call number c was made
DestroyedBefore(c, drv, id) ==
    \E x \in 1..(c - 1) :
        /\ calls[x].op = "destroy_instance" /\ calls[x].drv = drv
        /\ calls[x].res = "ok" /\ calls[x].inst.id = id

\* C18: no kernel is created on an instance that does not exist: after
\* destroy_instance(id) of an instance launch_instance returned, a
\* create_kernel call on that instance creates no kernel and records no
\* handle
C18_NoKernelOnDestroyedInstance ==
    \A c \in 1..Len(calls) :
        (/\ calls[c].op = "create_kernel"
         /\ calls[c].inst \in Launched
         /\ DestroyedBefore(c, calls[c].drv, calls[c].inst.id))
        => /\ calls[c].res # "ok"
           /\ calls[c].kernel.id \notin DOMAIN agents

\* C19: a cancellation of the monitor is honoured at its next receive: once
\* shutdown has cancelled the task, the monitor dispatches no further
\* event, and a task cancelled while it waits in the receive ends (the loop
\* running its steps, redis answering the unsubscribe and the close)
C19_CancelHonouredAtReceive ==
    /\ [][spc # "idle" => MonitorDispatches' = MonitorDispatches]_vars
    /\ ((cancelReq /\ mpc = "get") ~> MonitorEnded)

\* the task was cancelled in its receive with a notification still
\* buffered: it went through the cleanup and ended, the notification
\* undelivered
C19_Witness ==
    /\ spc # "idle" /\ MonitorEnded
    /\ mres = "ok" /\ mexc = "none" /\ conn = "closed"
    /\ inbox # << >>

\* the create_kernel calls of the local driver whose agent process could
\* not be spawned
FailedSpawns ==
    {c \in 1..Len(calls) :
        /\ calls[c].op = "create_kernel" /\ calls[c].drv = "local"
        /\ calls[c].pc = "done" /\ calls[c].res # "ok"}

\* C20: when the agent process cannot be spawned, create_kernel fails to its
\* caller with KernelStartError and no handle is recorded for the kernel
C20_SpawnFailureIsKernelStartError ==
    \A c \in FailedSpawns :
        /\ calls[c].res = "KernelStartError"
        /\ calls[c].kernel.id \notin DOMAIN agents

\* the dispatch numbers of the invocations in the order the loop was given
\* them: those it has started, then those in its queue
ScheduledFor ==
    [n \in 1..Len(ran) |-> ran[n].d] \o [n \in 1..Len(ready) |-> ready[n].d]

\* the position in dispatched of the k-th dispatch the monitor made
MonitorDispatchIndex(k) ==
    CHOOSE d \in 1..Len(dispatched) :
        /\ dispatched[d].by = "monitor"
        /\ Cardinality({x \in 1..d : dispatched[x].by = "monitor"}) = k

\* C21: the monitor keeps the order of failure signals: when the expiry of
\* shadow:A was received before the expiry of shadow:B, the
\* instance_terminated event of A was dispatched before that of B, and
\* every handler invocation of A's event was given to the loop before
\* every invocation of B's event
C21_FailureSignalsKeepOrder ==
    \A m \in 1..Len(ShadowExpiries), n \in 1..Len(ShadowExpiries) :
        m < n =>
            /\ n <= Len(MonitorDispatches)
            /\ LET da == MonitorDispatchIndex(m)
                   db == MonitorDispatchIndex(n)
               IN  /\ da < db
                   /\ dispatched[da].args =
                         <<"agent-lost", LeaseInstance(ShadowExpiries[m][2])>>
                   /\ dispatched[db].args =
                         <<"agent-lost", LeaseInstance(ShadowExpiries[n][2])>>
                   /\ \A i \in 1..Len(ScheduledFor), j \in 1..Len(ScheduledFor) :
                         (ScheduledFor[i] = da /\ ScheduledFor[j] = db) => i < j

\* shadow:inst-42 expired, then shadow:a:b, with one handler registered:
\* the invocation for inst-42 has started, the one for a:b is queued
C21_Witness ==
    /\ Len(registered) = 1
    /\ received = <<(<<ChanExpired, KeyShadow42>>), (<<ChanExpired, KeyShadowAB>>)>>
    /\ Len(dispatched) = 2
    /\ Len(ran) = 1 /\ ran[1].d = 1
    /\ ran[1].args = <<"agent-lost", (<<"i", "n", "s", "t", "-", "4", "2">>)>>
    /\ Len(ready) = 1 /\ ready[1].d = 2
    /\ ready[1].args = <<"agent-lost", (<<"a", ":", "b">>)>>

====
